---- MODULE Spec2Model ----
(***************************************************************************)
(* Model of find-solutions.py: the locator of the newest Rider settings    *)
(* directory, the recent-solutions extractor, the solution-record builder  *)
(* and main.                                                               *)
(*                                                                         *)
(* Strings are sequences of symbols.  The eleven characters $USER_HOME$    *)
(* are one symbol, every other symbol is one character.  Directory names   *)
(* under the home directory are sequences of code points (naturals), so    *)
(* that the ordering of sorted() is the ordering of the code.              *)
(* The filesystem, the password database and the session file do not       *)
(* change while the program runs (one read pass, spec section 5).          *)
(***************************************************************************)
EXTENDS Integers, Sequences, FiniteSets, TLC

\* ---------------------------------------------------------------- bounds
MaxEntries == 2       \* option elements in the recentPaths list
MaxNameLen == 3       \* length of an entry name under the home directory
MaxDirEntries == 2    \* entries under the home directory

\* ------------------------------------------------------- string literals
USER_HOME == "$USER_HOME$"
TILDE == "~"
SEP == "/"
ID_PREFIX == <<"intellij-rider-search-provider-">>

\* The home directory /h, the working directory /c, and the home directory
\* /x of the one other account name, u, a value can name.
HomeParts == << <<"h">> >>
CwdParts == << <<"c">> >>
OtherUser == <<"u">>
OtherHomeParts == << <<"x">> >>

\* ------------------------------------------------------ str.replace
\* value.replace('$USER_HOME$', '~'): every occurrence is replaced.
replace(value) ==
    [k \in 1..Len(value) |-> IF value[k] = USER_HOME THEN TILDE ELSE value[k]]

\* ------------------------------------------------------ pathlib.Path
\* The components of a string: split at "/", empty and "." components
\* dropped (what PurePosixPath does with repeated and trailing slashes).
RECURSIVE SplitFrom(_, _, _)
SplitFrom(s, k, cur) ==
    IF k > Len(s)
    THEN IF cur = <<>> \/ cur = <<".">> THEN <<>> ELSE <<cur>>
    ELSE IF s[k] = SEP
         THEN (IF cur = <<>> \/ cur = <<".">> THEN <<>> ELSE <<cur>>)
              \o SplitFrom(s, k + 1, <<>>)
         ELSE SplitFrom(s, k + 1, Append(cur, s[k]))

\* Path(s): a root flag and the components.
Path(s) ==
    [root |-> (Len(s) > 0 /\ s[1] = SEP), parts |-> SplitFrom(s, 1, <<>>)]

RECURSIVE JoinParts(_)
JoinParts(parts) ==
    IF parts = <<>> THEN <<>>
    ELSE IF Len(parts) = 1 THEN parts[1]
    ELSE parts[1] \o <<SEP>> \o JoinParts(Tail(parts))

\* str(path)
str(p) ==
    IF p.root THEN <<SEP>> \o JoinParts(p.parts)
    ELSE IF p.parts = <<>> THEN <<".">>
    ELSE JoinParts(p.parts)

HomePath == [root |-> TRUE, parts |-> HomeParts]

\* ------------------------------------------------------------ state
VARIABLES
    listing,               \* entries directly under the home directory: name -> "dir" | "file"
    session,               \* the session file at the located path: "ok" | "missing" | "malformed"
    doc,                   \* the option elements under recentPaths/list, in document order
    fs,                    \* the marker-file locations: location -> kind
    pwd,                   \* the other account names the password database knows
    pc,                    \* "start" | "located" | "iter" | "done" | "failed"
    recent_solutions_file, \* what find_latest_recent_solutions_file returned
    i,                     \* the next element the generators of find_recent_solutions pull
    built,                 \* every record get_solution returned, in order, with the
                           \* position in doc of the element it was built from
    result,                \* the dict under construction: a sequence of [key, value] items
    stdout,                \* the lines written to standard output
    exit_status,           \* -1 while running, then the exit status of the process
    error                  \* the exception that ended the run, or "none"

vars == <<listing, session, doc, fs, pwd, pc, recent_solutions_file, i, built,
          result, stdout, exit_status, error>>

\* ------------------------------------------------------ the filesystem
\* The marker-file locations of the model, as absolute component lists
\* (a component is a sequence of symbols):
\*   /h/a      what $USER_HOME$/a and /h/a expand to
\*   /c/~/a    what open("~/a") names in the working directory /c
\*   /c/a      what the relative path a names
\*   /x/~      what /x/$USER_HOME$ names after the replacement
HomeA == << <<"h">>, <<"a">> >>
CwdTildeA == << <<"c">>, <<TILDE>>, <<"a">> >>
CwdA == << <<"c">>, <<"a">> >>
OtherTilde == << <<"x">>, <<TILDE>> >>

Locations == {HomeA, CwdTildeA, CwdA, OtherTilde}

Kinds == {"missing", "dir", "file", "locked"}

\* What each location can hold: "locked" is a regular file open() refuses
\* with a PermissionError.
KindsAt(loc) ==
    CASE loc = HomeA -> Kinds
      [] loc = CwdTildeA -> {"missing", "file"}
      [] loc = CwdA -> {"missing", "dir", "file"}
      [] OTHER -> {"missing", "file"}

Filesystems ==
    {f \in [Locations -> Kinds] : \A loc \in Locations : f[loc] \in KindsAt(loc)}

\* The text of the file at a location, when it is a file.
Content(loc) ==
    CASE loc = HomeA -> <<"M", "\n">>
      [] loc = CwdTildeA -> <<" ", "W">>
      [] loc = CwdA -> <<"R", " ", "R", "\n">>
      [] OTHER -> <<"\n">>

\* The location a path names when handed to the operating system: a relative
\* path is taken from the working directory, and "~" is an ordinary name.
Resolve(p) == IF p.root THEN p.parts ELSE CwdParts \o p.parts

KindAt(loc) ==
    IF loc \in DOMAIN fs THEN fs[loc]
    ELSE IF loc \in {HomeParts, CwdParts, OtherHomeParts, <<>>} THEN "dir"
    ELSE "missing"

\* Path.exists() in the place of Path.is_file(): a directory passes too.
is_file_exists(p) == KindAt(Resolve(p)) # "missing"

\* Path.is_file(): a regular file, readable or not.
is_file(p) == KindAt(Resolve(p)) \in {"file", "locked"}

\* Path.read_text(encoding='utf-8'): the text, or the exception open() raises.
read_text(p) ==
    LET kind == KindAt(Resolve(p)) IN
    CASE kind = "file" -> [error |-> "none", value |-> Content(Resolve(p))]
      [] kind = "missing" -> [error |-> "FileNotFoundError", value |-> <<>>]
      [] kind = "dir" -> [error |-> "IsADirectoryError", value |-> <<>>]
      [] OTHER -> [error |-> "PermissionError", value |-> <<>>]

\* ------------------------------------------------------------ str.strip
Whitespace == {" ", "\n"}

RECURSIVE lstrip(_)
lstrip(s) ==
    IF s # <<>> /\ Head(s) \in Whitespace THEN lstrip(Tail(s)) ELSE s

RECURSIVE rstrip(_)
rstrip(s) ==
    IF s # <<>> /\ s[Len(s)] \in Whitespace
    THEN rstrip(SubSeq(s, 1, Len(s) - 1)) ELSE s

strip(s) == rstrip(lstrip(s))

\* ------------------------------------------------------ Path.expanduser
\* Only a leading component that starts with "~" of a relative path is
\* expanded: "~" to the home directory, "~name" to the home directory of
\* that account, a RuntimeError when the account is unknown.
expanduser(p) ==
    IF ~p.root /\ p.parts # <<>> /\ Head(Head(p.parts)) = TILDE
    THEN LET user == Tail(Head(p.parts)) IN
         IF user = <<>>
         THEN [error |-> "none",
               value |-> [root |-> TRUE, parts |-> HomeParts \o Tail(p.parts)]]
         ELSE IF user \in pwd
         THEN [error |-> "none",
               value |-> [root |-> TRUE, parts |-> OtherHomeParts \o Tail(p.parts)]]
         ELSE [error |-> "RuntimeError", value |-> p]
    ELSE [error |-> "none", value |-> p]

\* ------------------------------------------------------ get_solution
\* The fallback name taken from the expanded path.
solution_name_expanded(solutionfile) ==
    LET text == read_text(solutionfile) IN
    CASE text.error = "none" -> [error |-> "none", value |-> strip(text.value)]
      [] text.error = "FileNotFoundError" ->
            [error |-> "none", value |-> str(expanduser(solutionfile).value)]
      [] OTHER -> [error |-> text.error, value |-> <<>>]

\* The name get_solution gives: the stripped text, or str(solutionfile) when
\* read_text raises FileNotFoundError; any other exception propagates.
solution_name(solutionfile) ==
    LET text == read_text(solutionfile) IN
    CASE text.error = "none" -> [error |-> "none", value |-> strip(text.value)]
      [] text.error = "FileNotFoundError" ->
            [error |-> "none", value |-> str(solutionfile)]
      [] OTHER -> [error |-> text.error, value |-> <<>>]

\* The id made of the path as listed.
solution_id_unexpanded(solutionfile) == ID_PREFIX \o str(solutionfile)

\* The id of the record: the prefix, then the expanded path.
solution_id(solutionfile) == ID_PREFIX \o str(expanduser(solutionfile).value)

\* The abspath of the record.
solution_abspath(solutionfile) == str(expanduser(solutionfile).value)

\* The path taken from the expanded path.
solution_path_expanded(solutionfile) == str(expanduser(solutionfile).value)

\* The path of the record.
solution_path(solutionfile) == str(solutionfile)

NoRecord == [id |-> <<>>, name |-> <<>>, path |-> <<>>, abspath |-> <<>>]

get_solution(solutionfile) ==
    LET name == solution_name(solutionfile)
        expanded == expanduser(solutionfile)
    IN  IF name.error # "none" THEN [error |-> name.error, value |-> NoRecord]
        ELSE IF expanded.error # "none"
        THEN [error |-> expanded.error, value |-> NoRecord]
        ELSE [error |-> "none",
              value |-> [id |-> solution_id(solutionfile),
                         name |-> name.value,
                         path |-> solution_path(solutionfile),
                         abspath |-> solution_abspath(solutionfile)]]

\* ------------------------------ find_latest_recent_solutions_file
\* Entry names are sequences of code points; PATTERN_PREFIX stands for the
\* literal part of the pattern '.Rider*'.
NameChars == {1, 2}
PATTERN_PREFIX == <<2, 1>>

\* glob('.Rider*') on one name: the literal part, then anything.
matches(name) ==
    /\ Len(name) >= Len(PATTERN_PREFIX)
    /\ SubSeq(name, 1, Len(PATTERN_PREFIX)) = PATTERN_PREFIX

\* Path.home().glob('.Rider*'): every matching entry, of any kind.
glob(entries) == {name \in DOMAIN entries : matches(name)}

\* The ordering of Python strings: by code point, a proper prefix first.
RECURSIVE str_less(_, _)
str_less(a, b) ==
    IF b = <<>> THEN FALSE
    ELSE IF a = <<>> THEN TRUE
    ELSE IF Head(a) # Head(b) THEN Head(a) < Head(b)
    ELSE str_less(Tail(a), Tail(b))

\* sorted(names, key=lambda p: p.name, reverse=True)
RECURSIVE sorted_reverse(_)
sorted_reverse(names) ==
    IF names = {} THEN <<>>
    ELSE LET top == CHOOSE n \in names : \A m \in names : ~str_less(n, m)
         IN  <<top>> \o sorted_reverse(names \ {top})

None == <<>>
SESSION_SUBPATH == <<"config", "options", "recentSolutions.xml">>

\* The returned path, as the entry name followed by the fixed sub-path.
find_latest_recent_solutions_file(entries) ==
    LET candidates == sorted_reverse(glob(entries)) IN
    IF candidates # <<>> THEN <<candidates[1]>> \o SESSION_SUBPATH ELSE None

\* ------------------------------------------------------ etree.parse
\* The absence value taken for an empty document.
parse_error_none_accepted(file) ==
    IF file = None THEN "none"
    ELSE IF listing[file[1]] # "dir" THEN "NotADirectoryError"
    ELSE IF session = "missing" THEN "FileNotFoundError"
    ELSE IF session = "malformed" THEN "ParseError"
    ELSE "none"

\* What etree.parse(recent_solutions_file) raises, or "none".
parse_error(file) ==
    IF file = None THEN "TypeError"
    ELSE IF listing[file[1]] # "dir" THEN "NotADirectoryError"
    ELSE IF session = "missing" THEN "FileNotFoundError"
    ELSE IF session = "malformed" THEN "ParseError"
    ELSE "none"

\* ------------------------------------------------------ the generators
\* The filter and the builder of the generator solutions, on one path: the
\* exception raised, or whether the filter keeps the path and, then, the
\* record built.
solutions(solutionfile) ==
    LET expanded == expanduser(solutionfile) IN
    IF expanded.error # "none"
    THEN [error |-> expanded.error, keep |-> FALSE, value |-> NoRecord]
    ELSE IF ~is_file(expanded.value)
    THEN [error |-> "none", keep |-> FALSE, value |-> NoRecord]
    ELSE LET solution == get_solution(solutionfile) IN
         [error |-> solution.error, keep |-> TRUE, value |-> solution.value]

\* An option element is <<value>>, or <<>> when it has no value attribute.
\* One element pulled through both generators: the path made of its value
\* by the generator paths, then what the generator solutions does with it
\* (the path is made once, and solutions gets the Path object).
pull(el) ==
    IF el = <<>> THEN [error |-> "KeyError", keep |-> FALSE, value |-> NoRecord]
    ELSE CHOOSE outcome \in
            {solutions(solutionfile) : solutionfile \in {Path(replace(el[1]))}} : TRUE

\* The key of the item made of a record, taken from its path.
item_key_path(solution) == solution.path

\* The key of the item made of a record: solution['id'].
item_key(solution) == solution.id

\* A dict that keeps the first value of a key.
dict_set_first_wins(d, key, value) ==
    IF \E k \in 1..Len(d) : d[k].key = key
    THEN d
    ELSE Append(d, [key |-> key, value |-> value])

\* dict(...): an item for a new key goes last, an item for a key that is
\* present replaces the value in place.
dict_set(d, key, value) ==
    IF \E k \in 1..Len(d) : d[k].key = key
    THEN [k \in 1..Len(d) |->
            IF d[k].key = key THEN [key |-> key, value |-> value] ELSE d[k]]
    ELSE Append(d, [key |-> key, value |-> value])

\* json.dumps(d): the members of the object in the order of the dict, every
\* record an object of four members.
json_dumps(d) ==
    [k \in 1..Len(d) |->
        [key |-> d[k].key,
         value |-> << <<"id", d[k].value.id>>, <<"name", d[k].value.name>>,
                      <<"path", d[k].value.path>>,
                      <<"abspath", d[k].value.abspath>> >>]]

\* ------------------------------------------------------------ inputs
Values ==
    { <<USER_HOME, SEP, "a">>,         \* $USER_HOME$/a
      <<SEP, "h", SEP, "a">>,          \* /h/a
      <<"a">>,                         \* a
      <<SEP, "x", SEP, USER_HOME>>,    \* /x/$USER_HOME$
      <<USER_HOME, "u">> }             \* $USER_HOME$u

Elements == {<<v>> : v \in Values} \cup {<<>>}

Docs == UNION {[1..n -> Elements] : n \in 0..MaxEntries}

Names == UNION {[1..n -> NameChars] : n \in 1..MaxNameLen}

\* The subsets of S of at most n elements.
RECURSIVE SubsetsUpTo(_, _)
SubsetsUpTo(S, n) ==
    IF n = 0 THEN {{}}
    ELSE LET smaller == SubsetsUpTo(S, n - 1) IN
         smaller \cup {T \cup {x} : T \in smaller, x \in S}

Listings ==
    UNION {[S -> {"dir", "file"}] : S \in SubsetsUpTo(Names, MaxDirEntries)}

\* The listings of the whole-program specification: no entry, a settings
\* directory, a file of a matching name, and a directory with such a file.
MainListings ==
    { [n \in {} |-> "dir"],
      [n \in {<<2, 1>>} |-> "dir"],
      [n \in {<<2, 1>>} |-> "file"],
      [n \in {<<2, 1>>, <<2, 1, 1>>} |-> IF n = <<2, 1>> THEN "dir" ELSE "file"] }

NoFiles == [loc \in Locations |-> "missing"]

Running ==
    /\ pc = "start"
    /\ recent_solutions_file = None
    /\ i = 1
    /\ built = <<>>
    /\ result = <<>>
    /\ stdout = <<>>
    /\ exit_status = -1
    /\ error = "none"

Init ==
    /\ listing \in MainListings
    /\ session \in
         LET file == find_latest_recent_solutions_file(listing) IN
         IF file # None /\ listing[file[1]] = "dir"
         THEN {"ok", "missing", "malformed"} ELSE {"missing"}
    /\ doc \in IF session = "ok" THEN Docs ELSE {<<>>}
    /\ fs \in IF doc # <<>> THEN Filesystems ELSE {NoFiles}
    /\ pwd \in IF doc # <<>> THEN SUBSET {OtherUser} ELSE {{}}
    /\ Running

\* ------------------------------------------------------------ actions
\* main, line 73: the argument of find_recent_solutions is evaluated.
Locate ==
    /\ pc = "start"
    /\ recent_solutions_file' = find_latest_recent_solutions_file(listing)
    /\ pc' = "located"
    /\ UNCHANGED <<listing, session, doc, fs, pwd, i, built, result, stdout,
                   exit_status, error>>

\* An uncaught exception: the traceback goes to standard error, and the
\* process exits with status 1.
Raise(exception) ==
    /\ pc' = "failed"
    /\ error' = exception
    /\ exit_status' = 1
    /\ UNCHANGED <<listing, session, doc, fs, pwd, recent_solutions_file, i,
                   built, result, stdout>>

ParseOk ==
    /\ pc = "located"
    /\ parse_error(recent_solutions_file) = "none"
    /\ pc' = "iter"
    /\ UNCHANGED <<listing, session, doc, fs, pwd, recent_solutions_file, i,
                   built, result, stdout, exit_status, error>>

ParseFail ==
    /\ pc = "located"
    /\ parse_error(recent_solutions_file) # "none"
    /\ Raise(parse_error(recent_solutions_file))

\* dict() pulls the next element; the filter drops it.
PullSkip ==
    /\ pc = "iter"
    /\ i <= Len(doc)
    /\ pull(doc[i]).error = "none"
    /\ ~pull(doc[i]).keep
    /\ i' = i + 1
    /\ UNCHANGED <<listing, session, doc, fs, pwd, pc, recent_solutions_file,
                   built, result, stdout, exit_status, error>>

\* dict() pulls the next element; its record is stored under its id.
PullBuild ==
    /\ pc = "iter"
    /\ i <= Len(doc)
    /\ pull(doc[i]).error = "none"
    /\ pull(doc[i]).keep
    /\ built' = Append(built, [entry |-> i, record |-> pull(doc[i]).value])
    /\ result' = dict_set(result, item_key(pull(doc[i]).value), pull(doc[i]).value)
    /\ i' = i + 1
    /\ UNCHANGED <<listing, session, doc, fs, pwd, pc, recent_solutions_file,
                   stdout, exit_status, error>>

\* dict() pulls the next element; an exception leaves the generators.
PullFail ==
    /\ pc = "iter"
    /\ i <= Len(doc)
    /\ pull(doc[i]).error # "none"
    /\ Raise(pull(doc[i]).error)

\* find_recent_solutions returns; main prints the JSON text and the process
\* ends.
Emit ==
    /\ pc = "iter"
    /\ i > Len(doc)
    /\ stdout' = Append(stdout, json_dumps(result))
    /\ exit_status' = 0
    /\ pc' = "done"
    /\ UNCHANGED <<listing, session, doc, fs, pwd, recent_solutions_file, i,
                   built, result, error>>

Next == Locate \/ ParseOk \/ ParseFail \/ PullSkip \/ PullBuild \/ PullFail \/ Emit

Spec == Init /\ [][Next]_vars

\* The locator alone, over every listing within the bounds.
InitLocate ==
    /\ listing \in Listings
    /\ session = "missing"
    /\ doc = <<>>
    /\ fs = NoFiles
    /\ pwd = {}
    /\ Running

NextLocate == Locate

SpecLocate == InitLocate /\ [][NextLocate]_vars

\* ============================================================ claims
\* The path find_recent_solutions makes of element j, and its expansion.
Listed(j) == Path(replace(doc[j][1]))
Expanded(j) == expanduser(Listed(j)).value

\* Element j has gone through the generators (it was skipped, built into a
\* record, or raised the exception that ended the run).
Pulled(j) ==
    /\ j \in 1..Len(doc)
    /\ pc \in {"iter", "done", "failed"}
    /\ (j < i \/ (j = i /\ pc = "failed"))

\* Element j passed the existence filter.
Kept(j) ==
    /\ doc[j] # <<>>
    /\ expanduser(Listed(j)).error = "none"
    /\ KindAt(Resolve(Expanded(j))) \in {"file", "locked"}

Built == {built[k] : k \in 1..Len(built)}
Items == {result[k] : k \in 1..Len(result)}

\* The kind of filesystem entry a path string names.
KindOfText(text) == KindAt(Resolve(Path(text)))

\* ---------------------------------------------------------------- C1
\* C1: every record of the output whose marker file (the file at the
\* expanded path) is readable has as its name the text of that file with
\* leading and trailing whitespace removed, also when the path was stored
\* with the $USER_HOME$ placeholder.
C1_NameIsTrimmedContent ==
    \A b \in Built :
        KindAt(Resolve(Expanded(b.entry))) = "file"
            => b.record.name = strip(Content(Resolve(Expanded(b.entry))))

\* ---------------------------------------------------------------- C2
\* C2: when find_recent_solutions returns, every listed path whose expanded
\* form is a file has exactly one record in the result whose abspath is the
\* expanded path, the id of that record is the namespace prefix followed by
\* the expanded path, and two records built have the same id exactly when
\* they have the same abspath.
C2_OneRecordPerExistingPath ==
    /\ pc = "done" =>
         \A j \in 1..Len(doc) :
            Kept(j) =>
              /\ Cardinality({k \in 1..Len(result) :
                    result[k].value.abspath = str(Expanded(j))}) = 1
              /\ \A k \in 1..Len(result) :
                    result[k].value.abspath = str(Expanded(j))
                        => result[k].value.id = ID_PREFIX \o str(Expanded(j))
    /\ \A a, b \in Built :
          (a.record.id = b.record.id) <=> (a.record.abspath = b.record.abspath)

\* Two elements of different text name the same file, and one record stands
\* for both.
C2_Witness ==
    /\ pc = "done"
    /\ \E j, k \in 1..Len(doc) :
          /\ Kept(j) /\ Kept(k)
          /\ Listed(j) # Listed(k)
          /\ Expanded(j) = Expanded(k)
    /\ Len(result) = 1

\* ---------------------------------------------------------------- C3
\* C3: no record of the result, and no record built, has an abspath that is
\* not a regular file; a listed path whose expanded form is missing or a
\* directory has no record.
C3_OnlyExistingFiles ==
    /\ \A b \in Built : KindOfText(b.record.abspath) \in {"file", "locked"}
    /\ \A it \in Items : KindOfText(it.value.abspath) \in {"file", "locked"}
    /\ \A j \in 1..Len(doc) :
          (Pulled(j) /\ doc[j] # <<>> /\ expanduser(Listed(j)).error = "none"
             /\ KindAt(Resolve(Expanded(j))) \in {"missing", "dir"})
            => /\ \A b \in Built : b.entry # j
               /\ \A it \in Items : it.value.abspath # str(Expanded(j))

\* A run that ends well with a record, having dropped a listed path that
\* is a directory.
C3_Witness ==
    /\ pc = "done"
    /\ Len(result) >= 1
    /\ \E j \in 1..Len(doc) :
          /\ expanduser(Listed(j)).error = "none"
          /\ Resolve(Expanded(j)) \in Locations
          /\ KindAt(Resolve(Expanded(j))) = "dir"

\* ---------------------------------------------------------------- C4
\* C4 as stated: the path of every record is the value attribute exactly as
\* read from the XML, the $USER_HOME$ placeholder included.
C4_PathIsOriginalValue ==
    \A b \in Built : b.record.path = doc[b.entry][1]

\* C4 as amended: the path of every record is the text of the Path made of
\* the value with every $USER_HOME$ replaced by "~"; it never holds the
\* token $USER_HOME$, a leading placeholder shows as an unexpanded "~", and
\* it is the value itself when the value holds no placeholder, no repeated
\* or trailing slash and no "." component.
C4_PathIsTildeForm ==
    \A b \in Built :
        LET value == doc[b.entry][1]
            path == b.record.path
        IN  /\ path = str(Path(replace(value)))
            /\ \A k \in 1..Len(path) : path[k] # USER_HOME
            /\ Head(value) = USER_HOME => Head(path) = TILDE
            /\ (replace(value) = value /\ str(Path(value)) = value)
                  => path = value

\* A record built from a value stored with the placeholder.
C4_Witness ==
    \E b \in Built :
        /\ Head(doc[b.entry][1]) = USER_HOME
        /\ b.record.path # b.record.abspath

\* ---------------------------------------------------------------- C5
\* The value with every $USER_HOME$ replaced by the text of the home
\* directory.
substitute_home(value) ==
    IF value = <<>> THEN <<>>
    ELSE LET RECURSIVE sub(_)
             sub(v) ==
                IF v = <<>> THEN <<>>
                ELSE (IF Head(v) = USER_HOME THEN str(HomePath) ELSE <<Head(v)>>)
                     \o sub(Tail(v))
         IN  sub(value)

\* C5: the abspath of every record is the value with $USER_HOME$ replaced
\* by the home directory wherever it occurs, it is an absolute path, and it
\* is the value itself when the value holds no placeholder.
C5_AbspathIsValueWithHome ==
    \A b \in Built :
        LET value == doc[b.entry][1] IN
        /\ b.record.abspath = substitute_home(value)
        /\ Head(b.record.abspath) = SEP
        /\ replace(value) = value => b.record.abspath = value

\* ---------------------------------------------------------------- C6
\* What read_text gives for element j.
ReadOf(j) == read_text(Listed(j))

\* C6 as stated: whenever the marker file of a path handed to get_solution
\* cannot be read, no exception leaves get_solution and the record's name
\* is its path, the raw string.
C6_UnreadableFallsBack ==
    \A j \in 1..Len(doc) :
        (Pulled(j) /\ Kept(j) /\ ReadOf(j).error # "none")
            => \E b \in Built :
                  b.entry = j /\ b.record.name = b.record.path

\* C6 as amended: when read_text raises FileNotFoundError, get_solution
\* returns a record whose name is str(solutionfile), the same string as its
\* path; every other exception of read_text leaves get_solution and ends
\* the run with no record for the path.
C6_MissingFallsBack ==
    \A j \in 1..Len(doc) :
        (Pulled(j) /\ Kept(j)) =>
            /\ ReadOf(j).error = "FileNotFoundError"
                 => \E b \in Built :
                       /\ b.entry = j
                       /\ b.record.name = str(Listed(j))
                       /\ b.record.name = b.record.path
            /\ ReadOf(j).error \notin {"none", "FileNotFoundError"}
                 => /\ pc = "failed"
                    /\ error = ReadOf(j).error
                    /\ \A b \in Built : b.entry # j

\* A record whose name is the fallback, in a run that went on to print.
C6_Witness ==
    /\ pc = "done"
    /\ \E b \in Built :
          /\ ReadOf(b.entry).error = "FileNotFoundError"
          /\ b.record.name = b.record.path

\* ---------------------------------------------------------------- C7
\* An exception is raised somewhere in the run.
RunRaises ==
    \/ parse_error(find_latest_recent_solutions_file(listing)) # "none"
    \/ \E j \in 1..Len(doc) : pull(doc[j]).error # "none"

\* C7: a run in which the session file is absent (no .Rider* entry
\* included), the XML is malformed or any other exception is raised ends
\* with a non-zero status and nothing on standard output; every other run
\* writes exactly one line and ends with status 0; nothing is written
\* before the run ends, and no run stops before it ends.
C7_AllOrNothing ==
    /\ pc \in {"start", "located", "iter"}
         => stdout = <<>> /\ exit_status = -1 /\ ENABLED Next
    /\ pc = "failed"
         => stdout = <<>> /\ exit_status # 0 /\ error # "none" /\ RunRaises
    /\ pc = "done"
         => /\ Len(stdout) = 1 /\ exit_status = 0 /\ error = "none"
            /\ ~RunRaises
            /\ stdout[1] = json_dumps(result)
    /\ (pc \in {"done", "failed"} /\ RunRaises) => pc = "failed"
    /\ (pc \in {"done", "failed"}
          /\ find_latest_recent_solutions_file(listing) = None)
         => pc = "failed" /\ error = "TypeError"

\* A run that fails after a record was built, with nothing printed.
C7_Witness ==
    /\ pc = "failed"
    /\ Len(built) >= 1
    /\ stdout = <<>>

\* ---------------------------------------------------------------- C8
\* The matching entries that are directories.
MatchingDirs == {n \in DOMAIN listing : matches(n) /\ listing[n] = "dir"}

\* C8: the locator returns the absence value exactly when no directory
\* under the home directory matches .Rider*, and otherwise the session file
\* path inside the matching directory of the greatest name.
C8_LatestMatchingDirectory ==
    pc = "located" =>
        /\ (recent_solutions_file = None) <=> (MatchingDirs = {})
        /\ recent_solutions_file # None =>
              /\ Tail(recent_solutions_file) = SESSION_SUBPATH
              /\ recent_solutions_file[1] \in MatchingDirs
              /\ \A n \in MatchingDirs :
                    ~str_less(recent_solutions_file[1], n)

\* ---------------------------------------------------------------- C9
\* The id member of a JSON object made of a record.
JsonId(object) == object[1][2]

\* C9 as stated: every key of the mapping and of the JSON object is the id
\* of the record under it, and every record built is in the mapping under
\* its id.
C9_EveryRecordUnderItsId ==
    /\ \A it \in Items : it.key = it.value.id
    /\ \A b \in Built :
          \E it \in Items : it.key = b.record.id /\ it.value = b.record

\* C9 as amended: every key of the mapping and of the JSON object is the id
\* of the record under it, no key occurs twice, the id of every record
\* built is a key, and every record built is in the mapping under its id
\* unless a record built later has the same id.
C9_KeysAreIds ==
    /\ \A it \in Items : it.key = it.value.id
    /\ \A k, m \in 1..Len(result) : result[k].key = result[m].key => k = m
    /\ \A b \in Built :
          /\ \E it \in Items : it.key = b.record.id
          /\ (\A c \in Built : c.record.id = b.record.id => c.entry <= b.entry)
                => \E it \in Items : it.key = b.record.id /\ it.value = b.record
    /\ pc = "done" =>
          /\ Len(stdout[1]) = Len(result)
          /\ \A k \in 1..Len(stdout[1]) :
                /\ stdout[1][k].key = JsonId(stdout[1][k].value)
                /\ stdout[1][k].key = result[k].value.id

\* The JSON object of a run that built two records of different ids.
C9_Witness ==
    /\ pc = "done"
    /\ Len(stdout[1]) = 2

\* --------------------------------------------------------------- C10
\* C10: when several elements give the same id, the mapping holds one
\* record for the id, the one built from the last of them in list order.
C10_LastEntryWins ==
    \A b \in Built :
        (\A c \in Built : c.record.id = b.record.id => c.entry <= b.entry)
            => /\ Cardinality({k \in 1..Len(result) :
                     result[k].key = b.record.id}) = 1
               /\ \A it \in Items : it.key = b.record.id => it.value = b.record

\* Two elements gave the same id and different records, and the run
\* printed.
C10_Witness ==
    /\ pc = "done"
    /\ \E b, c \in Built :
          /\ b.entry < c.entry
          /\ b.record.id = c.record.id
          /\ b.record # c.record
====
